---- MODULE Spec2Model ----
(***************************************************************************)
(* Model of LocalizationPlugin (src/src/localization_plugin2.cpp): the     *)
(* scan-matching cycle process(), the two subscription callbacks and the   *)
(* single-slot subscription queues that feed them.                         *)
(*                                                                         *)
(* Numbers.  Lengths are integers in units of 0.1 m, so the local window   *)
(* step (0.1 m) is 1, the global grid step (0.2 m) is 2 and the error cap  *)
(* (0.3 m) is 3.  Headings are quarter turns 0..3, which makes poses a     *)
(* discrete subgroup of the planar rigid motions: composition and inverse  *)
(* are exact and do not commute.  A double is a record [k, v]: k is "fin"  *)
(* (value v), "nan", "pinf" or "ninf"; comparisons follow IEEE 754.        *)
(* An optional value (a shared pointer that may be null) is a sequence of  *)
(* length 0 or 1.                                                          *)
(***************************************************************************)
EXTENDS Integers, Sequences, FiniteSets, TLC

VARIABLES
    pc,                   \* where process() stands: idle, subsample, search, bad_alloc
    best_laser_pose_,     \* member: the current best pose
    pose_initialized_,    \* member: the initialized flag
    previous_pose_,       \* member: the last odometry pose
    have_previous_pose_,  \* member: whether previous_pose_ is set
    lrf_,                 \* member: the sensor model's beam configuration
    laser_msg_,           \* member: the scan of the current cycle (optional)
    odom_msg_,            \* member: the odometry of the current cycle (optional)
    laser_sub,            \* the scan subscription queue (size 1) of cb_queue_
    odom_sub,             \* the odometry subscription queue (size 1) of cb_queue_
    laser_sent,           \* scans published so far (the header.seq counter)
    odom_sent,            \* odometry messages published so far
    laser_drained,        \* history: laser_sent at the last callAvailable()
    odom_drained,         \* history: odom_sent at the last callAvailable()
    world,                \* process() argument: the world snapshot
    poses,                \* local: the candidate poses
    i_step,               \* local: the subsampling stride
    i,                    \* local: the subsampling loop index
    sensor_ranges,        \* local: the subsampled scan
    entry,                \* history: best, prev, have, init at the entry of the cycle
    lines,                \* local: the cross-section (lines_start, lines_end)
    it,                   \* local: candidates scored so far
    min_sum_sq_error,     \* local: the smallest error so far
    model_ranges,         \* local: the model ranges of the last scored candidate
    errors                \* history: the error of each scored candidate

vars == <<pc, best_laser_pose_, pose_initialized_, previous_pose_,
          have_previous_pose_, lrf_, laser_msg_, odom_msg_, laser_sub, odom_sub,
          laser_sent, odom_sent, laser_drained, odom_drained, world, poses,
          i_step, i, sensor_ranges, entry, lines, it, min_sum_sq_error, model_ranges,
          errors>>

(***************************************************************************)
(* Bounds of the model.                                                    *)
(***************************************************************************)
\* messages published per channel
MaxMsgs == 2
\* half extent of the global grid (the source searches [-5 m, 5 m))
GridHalf == 2
\* half extent of the local window (the source searches [-0.3 m, 0.3 m))
LocalHalf == 1
\* doubles a vector can hold before push_back throws std::bad_alloc
MemLimit == 103

(***************************************************************************)
(* Program constants.                                                      *)
(***************************************************************************)
\* num_beams = 100
NumBeamsLimit == 100
\* the global grid step, 0.2 m
GridStep == 2
\* the local window step, 0.1 m
LocalStep == 1
\* the error cap, 0.3 m
ErrorCap == 3
\* min_sum_sq_error = 1e10: above every sum a scan can give (9 per beam);
\* kept within TLC's 32-bit integers
MinSumInit == 2000000000

(***************************************************************************)
(* Doubles.                                                                *)
(***************************************************************************)
Fin(v) == [k |-> "fin", v |-> v]
NaN == [k |-> "nan", v |-> 0]
PInf == [k |-> "pinf", v |-> 0]
NInf == [k |-> "ninf", v |-> 0]

\* r != r
IsNaN(r) == r.k = "nan"

\* a > b
FGt(a, b) ==
    CASE a.k = "nan" \/ b.k = "nan" -> FALSE
      [] a.k = "pinf" -> b.k # "pinf"
      [] a.k = "ninf" -> FALSE
      [] OTHER -> b.k = "ninf" \/ (b.k = "fin" /\ a.v > b.v)

(***************************************************************************)
(* Poses: geo::Pose3D restricted to the plane.                             *)
(***************************************************************************)
Pose(x, y, a) == [x |-> x, y |-> y, a |-> a]
Vec(x, y) == [x |-> x, y |-> y]

\* R * v for a rotation of a quarter turns
Rot(a, v) ==
    CASE a = 0 -> Vec(v.x, v.y)
      [] a = 1 -> Vec(-v.y, v.x)
      [] a = 2 -> Vec(-v.x, -v.y)
      [] OTHER -> Vec(v.y, -v.x)

\* p * q
Mul(p, q) ==
    LET r == Rot(p.a, q)
    IN  Pose(p.x + r.x, p.y + r.y, (p.a + q.a) % 4)

\* p.inverse()
Inverse(p) ==
    LET na == (4 - p.a) % 4
        r == Rot(na, Vec(-p.x, -p.y))
    IN  Pose(r.x, r.y, na)

\* T * v
Apply(T, v) ==
    LET r == Rot(T.a, v)
    IN  Vec(T.x + r.x, T.y + r.y)

Identity == Pose(0, 0, 0)

(***************************************************************************)
(* Inputs: the scans, odometry poses and world snapshots the environment   *)
(* may deliver.                                                            *)
(***************************************************************************)
Min(a, b) == IF a < b THEN a ELSE b
Max(a, b) == IF a > b THEN a ELSE b

\* The readings of a scan repeat this pattern: valid readings, a reading
\* beyond every range_max, and the three non-finite doubles.
Readings == <<Fin(1), NaN, Fin(3), PInf, Fin(200), NInf, Fin(2)>>

\* sensor_msgs::LaserScan: ranges is the sequence of `size` readings whose
\* element idx (from 0) is RangeAt(msg, idx).
ScanKinds ==
    {[size |-> n, range_max |-> Fin(100)] : n \in {0, 2, 100, 101, 1000}}

LaserScan(seq, kind) ==
    [seq |-> seq, size |-> kind.size, range_min |-> Fin(0),
     range_max |-> kind.range_max, angle_min |-> 0, angle_max |-> 3]

RangeAt(msg, idx) == Readings[(idx % Len(Readings)) + 1]

\* nav_msgs::Odometry: the absolute pose in the odometry frame.
OdomPoses == {Pose(1, 0, 1), Pose(0, 2, 3)}

Odometry(seq, pose) == [seq |-> seq, pose |-> pose]

\* An entity: its pose and, when it has a shape, the edges its mesh leaves
\* in the slicing plane, in the entity's frame.
Seg(x1, y1, x2, y2) == [p1 |-> Vec(x1, y1), p2 |-> Vec(x2, y2)]

Box == <<Seg(-1, -1, 1, -1), Seg(1, -1, 1, 1), Seg(1, 1, -1, 1), Seg(-1, 1, -1, -1)>>
Wall == <<Seg(3, -5, 3, 5)>>

Entity(has_shape, pose, mesh) == [has_shape |-> has_shape, pose |-> pose, mesh |-> mesh]

Worlds ==
    { <<Entity(FALSE, Identity, Wall)>>,
      <<Entity(TRUE, Identity, Box), Entity(FALSE, Identity, Wall),
        Entity(TRUE, Pose(0, 1, 1), Wall)>> }

(***************************************************************************)
(* geo::LaserRangeFinder, the sensor model.                                *)
(***************************************************************************)
\* A default-constructed range finder has no beams.
DefaultLrf ==
    [num_beams |-> 0, range_min |-> Fin(0), range_max |-> Fin(0),
     angle_min |-> 0, angle_max |-> 0]

\* The direction of beam b (from 0): the beams are evenly spaced over
\* [angle_min, angle_max], quantised to quarter turns.
BeamDir(lrf, b) ==
    (lrf.angle_min + (b * (lrf.angle_max - lrf.angle_min)) \div Max(1, lrf.num_beams - 1)) % 4

\* The distance along the ray of direction dir from the origin to the
\* segment p1-p2, or 0 when the ray misses it.
HitDist(p1, p2, dir) ==
    LET q1 == Rot((4 - dir) % 4, p1)
        q2 == Rot((4 - dir) % 4, p2)
    IN  IF /\ q1.x = q2.x
           /\ q1.x > 0
           /\ Min(q1.y, q2.y) <= 0
           /\ Max(q1.y, q2.y) >= 0
        THEN q1.x
        ELSE 0

\* ray_dirs_: the direction of every beam, set with the beam count and the
\* angle limits.  (<<>> \o f is the function f as a sequence.)
RayDirs(lrf) == <<>> \o [b \in 1..lrf.num_beams |-> BeamDir(lrf, b - 1)]

\* lrf_.renderLine(p1, p2, ranges): every beam that hits the segment keeps
\* the smaller of its range and the hit distance; a range of 0 is unset.
\* hit[dir + 1] is the hit distance of a ray of direction dir.
renderLine(ray_dirs, p1, p2, ranges) ==
    LET hit == <<HitDist(p1, p2, 0), HitDist(p1, p2, 1), HitDist(p1, p2, 2), HitDist(p1, p2, 3)>>
    IN  <<>> \o [b \in 1..Len(ranges) |->
                    LET d == hit[ray_dirs[b] + 1]
                        old == ranges[b]
                    IN  IF d > 0 /\ (old = 0 \/ d < old) THEN d ELSE old]

(***************************************************************************)
(* process(): the pieces of one cycle.                                     *)
(***************************************************************************)
\* A drain that leaves out the reset: the member keeps its old message
\* when nothing is queued.
DrainSlotNoReset(cur, queued) == IF Len(queued) > 0 THEN queued ELSE cur

\* laser_msg_.reset(); cb_queue_.callAvailable(): the member after the
\* reset and the callback of the queued message, if there is one.
DrainSlot(cur, queued) == IF Len(queued) > 0 THEN queued ELSE <<>>

\* An odometry block that applies the motion on the wrong side: B * delta.
OdomUpdateSwapped(st, initialized, new_pose) ==
    [best |-> IF st.have /\ initialized
              THEN Mul(st.best, Mul(new_pose, Inverse(st.prev)))
              ELSE st.best,
     prev |-> new_pose,
     have |-> TRUE]

\* The odometry block: st is [best, prev, have], new_pose the odometry pose.
OdomUpdate(st, initialized, new_pose) ==
    [best |-> IF st.have /\ initialized
              THEN Mul(Mul(new_pose, Inverse(st.prev)), st.best)
              ELSE st.best,
     prev |-> new_pose,
     have |-> TRUE]

\* The odometry block placed before the early return.
MotionStepOdomFirst(st, initialized, laser, odom) ==
    IF Len(odom) > 0 THEN OdomUpdate(st, initialized, odom[1].pose) ELSE st

\* From the early return to the end of the odometry block.
MotionStep(st, initialized, laser, odom) ==
    IF Len(laser) = 0 THEN st
    ELSE IF Len(odom) > 0 THEN OdomUpdate(st, initialized, odom[1].pose)
    ELSE st

\* The values a loop `for (v = lo; v < hi; v += step)` takes.
LoopValues(lo, hi, step) ==
    [k \in 1..((hi - lo + step - 1) \div step) |-> lo + (k - 1) * step]

\* The candidates, in the order the nested loops push them.
GlobalSamples ==
    LET xs == LoopValues(-GridHalf, GridHalf, GridStep)
        ys == LoopValues(-GridHalf, GridHalf, GridStep)
        as == LoopValues(0, 4, 1)
        ny == Len(ys)
        na == Len(as)
    IN  [k \in 1..(Len(xs) * ny * na) |->
            Pose(xs[((k - 1) \div (ny * na)) + 1],
                 ys[(((k - 1) \div na) % ny) + 1],
                 as[((k - 1) % na) + 1])]

LocalSamples(best) ==
    LET dxs == LoopValues(-LocalHalf, LocalHalf, LocalStep)
        dys == LoopValues(-LocalHalf, LocalHalf, LocalStep)
        das == LoopValues(-1, 1, 1)
        ny == Len(dys)
        na == Len(das)
    IN  <<best>> \o
        [k \in 1..(Len(dxs) * ny * na) |->
            Mul(best, Pose(dxs[((k - 1) \div (ny * na)) + 1],
                           dys[(((k - 1) \div na) % ny) + 1],
                           (das[((k - 1) % na) + 1] + 4) % 4))]

CreateSamples(initialized, best) ==
    IF ~initialized THEN GlobalSamples ELSE LocalSamples(best)

\* One reading of the subsampling loop.
Coerce(r, range_max) == IF IsNaN(r) \/ FGt(r, range_max) THEN Fin(0) ELSE r

\* The sensor model follows the scan only when the beam count changes.
UpdateSensorModel(lrf, num_beams, msg) ==
    IF lrf.num_beams # num_beams
    THEN [num_beams |-> num_beams, range_min |-> msg.range_min,
          range_max |-> msg.range_max, angle_min |-> msg.angle_min,
          angle_max |-> msg.angle_max]
    ELSE lrf

\* The cross-section: the edges of every entity that has a shape, in the
\* world frame (the slicing plane's pose is the identity in the plane).
RECURSIVE CrossSection(_)
CrossSection(w) ==
    IF Len(w) = 0 THEN <<>>
    ELSE LET e == Head(w)
             t_inv == Mul(Inverse(Identity), e.pose)
             edges == IF e.has_shape
                      THEN [k \in 1..Len(e.mesh) |->
                               [p1 |-> Apply(t_inv, e.mesh[k].p1),
                                p2 |-> Apply(t_inv, e.mesh[k].p2)]]
                      ELSE <<>>
         IN  edges \o CrossSection(Tail(w))

\* Model ranges that start at the sensor model's range_max.
InitModelRangesMax(n, lrf) == <<>> \o [b \in 1..n |-> lrf.range_max.v]

\* std::vector<double> model_ranges(sensor_ranges.size(), 0)
InitModelRanges(n, lrf) == <<>> \o [b \in 1..n |-> 0]

\* The loop over the cross-section for one candidate: every line is moved
\* into the candidate's frame and rendered into the ranges.
RECURSIVE RenderLines(_, _, _, _)
RenderLines(ray_dirs, T, ls, ranges) ==
    IF Len(ls) = 0 THEN ranges
    ELSE RenderLines(ray_dirs, T, Tail(ls),
                     renderLine(ray_dirs, Apply(T, Head(ls).p1), Apply(T, Head(ls).p2), ranges))

ModelRanges(lrf, laser_pose, ls, n) ==
    RenderLines(RayDirs(lrf), Inverse(laser_pose), ls, InitModelRanges(n, lrf))

\* diff * diff for one beam; a NaN difference is [nan |-> TRUE].
BeamError(s, m) ==
    IF s.k = "nan" THEN [nan |-> TRUE, v |-> 0]
    ELSE IF s.k # "fin" THEN [nan |-> FALSE, v |-> ErrorCap * ErrorCap]
    ELSE LET diff == s.v - m
             capped == IF diff > ErrorCap \/ -diff > ErrorCap THEN ErrorCap ELSE diff
         IN  [nan |-> FALSE, v |-> capped * capped]

\* The sum of the beam errors lo..hi; the sum over all beams is what the
\* scoring loop accumulates (halved here to keep the evaluation shallow).
RECURSIVE SumRange(_, _, _, _)
SumRange(sensor, model, lo, hi) ==
    IF lo > hi THEN [nan |-> FALSE, v |-> 0]
    ELSE IF lo = hi THEN BeamError(sensor[lo], model[lo])
    ELSE LET mid == (lo + hi) \div 2
             l == SumRange(sensor, model, lo, mid)
             r == SumRange(sensor, model, mid + 1, hi)
         IN  [nan |-> l.nan \/ r.nan, v |-> l.v + r.v]

SumSqError(sensor, model) == SumRange(sensor, model, 1, Len(sensor))

\* sum_sq_error <= min_sum_sq_error: the last candidate of minimum error wins.
BetterOrEqual(sum, min) == ~sum.nan /\ sum.v <= min

\* sum_sq_error < min_sum_sq_error
Better(sum, min) == ~sum.nan /\ sum.v < min

\* A new best pose that leaves the initialized flag as it was.
AcceptNoFlag(acc, laser_pose, sum) ==
    [min |-> sum.v, best |-> laser_pose, init |-> acc.init]

\* The body of `if (sum_sq_error < min_sum_sq_error)`: acc is [min, best, init].
Accept(acc, laser_pose, sum) ==
    [min |-> sum.v, best |-> laser_pose, init |-> TRUE]

(***************************************************************************)
(* The state machine.                                                      *)
(***************************************************************************)
members == <<best_laser_pose_, pose_initialized_, previous_pose_,
             have_previous_pose_, lrf_>>
mailbox == <<laser_msg_, odom_msg_, laser_sub, odom_sub, laser_sent, odom_sent,
             laser_drained, odom_drained>>
start_locals == <<world, poses, i_step, i, sensor_ranges, entry>>

\* The history record while no cycle is running.
NoEntry == [best |-> Identity, prev |-> Identity, have |-> FALSE, init |-> FALSE]
search_locals == <<lines, it, min_sum_sq_error, model_ranges, errors>>

\* The state after construction; process() has no locals yet.
Init ==
    /\ pc = "idle"
    /\ best_laser_pose_ = Identity
    /\ pose_initialized_ = FALSE
    /\ previous_pose_ = Identity
    /\ have_previous_pose_ = FALSE
    /\ lrf_ = DefaultLrf
    /\ laser_msg_ = <<>>
    /\ odom_msg_ = <<>>
    /\ laser_sub = <<>>
    /\ odom_sub = <<>>
    /\ laser_sent = 0
    /\ odom_sent = 0
    /\ laser_drained = 0
    /\ odom_drained = 0
    /\ world = <<>>
    /\ poses = <<>>
    /\ i_step = 0
    /\ i = 0
    /\ sensor_ranges = <<>>
    /\ entry = NoEntry
    /\ lines = <<>>
    /\ it = 0
    /\ min_sum_sq_error = MinSumInit
    /\ model_ranges = <<>>
    /\ errors = <<>>

\* A scan is published: the subscription queue of size 1 keeps only it.
\* The transport delivers while process() is idle or searching; the queue
\* is not read between the drain at the entry of process() and its return.
LaserArrives ==
    /\ pc \in {"idle", "search"}
    /\ laser_sent < MaxMsgs
    /\ \E kind \in ScanKinds :
          laser_sub' = <<LaserScan(laser_sent + 1, kind)>>
    /\ laser_sent' = laser_sent + 1
    /\ UNCHANGED <<pc, members, laser_msg_, odom_msg_, odom_sub, odom_sent,
                   laser_drained, odom_drained, start_locals, search_locals>>

\* An odometry message is published: the queue of size 1 keeps only it,
\* under the same schedule as the scans.
OdomArrives ==
    /\ pc \in {"idle", "search"}
    /\ odom_sent < MaxMsgs
    /\ \E pose \in OdomPoses :
          odom_sub' = <<Odometry(odom_sent + 1, pose)>>
    /\ odom_sent' = odom_sent + 1
    /\ UNCHANGED <<pc, members, laser_msg_, odom_msg_, laser_sub, laser_sent,
                   laser_drained, odom_drained, start_locals, search_locals>>

\* process() from its entry to the head of the subsampling loop: the
\* mailbox is drained, a cycle without a scan returns, otherwise the
\* odometry is folded in and the candidates and the stride are computed.
ProcessStart ==
    /\ pc = "idle"
    /\ \E w \in Worlds :
        LET laser == DrainSlot(laser_msg_, laser_sub)
            odom == DrainSlot(odom_msg_, odom_sub)
            st == MotionStep([best |-> best_laser_pose_, prev |-> previous_pose_,
                              have |-> have_previous_pose_],
                             pose_initialized_, laser, odom)
        IN  /\ laser_msg_' = laser
            /\ odom_msg_' = odom
            /\ laser_sub' = <<>>
            /\ odom_sub' = <<>>
            /\ laser_drained' = laser_sent
            /\ odom_drained' = odom_sent
            /\ best_laser_pose_' = st.best
            /\ previous_pose_' = st.prev
            /\ have_previous_pose_' = st.have
            /\ IF Len(laser) = 0
               THEN /\ pc' = "idle"
                    /\ UNCHANGED start_locals
               ELSE /\ pc' = "subsample"
                    /\ world' = w
                    /\ poses' = CreateSamples(pose_initialized_, st.best)
                    /\ i_step' = laser[1].size \div NumBeamsLimit
                    /\ i' = 0
                    /\ sensor_ranges' = <<>>
                    /\ entry' = [best |-> best_laser_pose_, prev |-> previous_pose_,
                                  have |-> have_previous_pose_, init |-> pose_initialized_]
    /\ UNCHANGED <<pose_initialized_, lrf_, laser_sent, odom_sent, search_locals>>

\* One pass of the subsampling loop; push_back on a vector that cannot
\* grow any more throws std::bad_alloc out of process().
SubsampleStep ==
    /\ pc = "subsample"
    /\ i < laser_msg_[1].size
    /\ IF Len(sensor_ranges) >= MemLimit
       THEN /\ pc' = "bad_alloc"
            /\ UNCHANGED <<i, sensor_ranges>>
       ELSE /\ pc' = pc
            /\ sensor_ranges' = Append(sensor_ranges,
                                       Coerce(RangeAt(laser_msg_[1], i), laser_msg_[1].range_max))
            /\ i' = i + i_step
    /\ UNCHANGED <<members, mailbox, world, poses, i_step, entry, search_locals>>

\* From the end of the subsampling loop to the head of the search loop.
PrepareSearch ==
    /\ pc = "subsample"
    /\ i >= laser_msg_[1].size
    /\ lrf_' = UpdateSensorModel(lrf_, Len(sensor_ranges), laser_msg_[1])
    /\ lines' = CrossSection(world)
    /\ min_sum_sq_error' = MinSumInit
    /\ it' = 0
    /\ model_ranges' = <<>>
    /\ errors' = <<>>
    /\ pc' = "search"
    /\ UNCHANGED <<best_laser_pose_, pose_initialized_, previous_pose_,
                   have_previous_pose_, mailbox, start_locals>>

\* One pass of the search loop: the next candidate is scored.
SearchStep ==
    /\ pc = "search"
    /\ it < Len(poses)
    /\ LET laser_pose == poses[it + 1]
           ranges == ModelRanges(lrf_, laser_pose, lines, Len(sensor_ranges))
           sum == SumSqError(sensor_ranges, ranges)
           acc == [min |-> min_sum_sq_error, best |-> best_laser_pose_,
                   init |-> pose_initialized_]
           new == IF Better(sum, min_sum_sq_error) THEN Accept(acc, laser_pose, sum) ELSE acc
       IN  /\ model_ranges' = ranges
           /\ errors' = Append(errors, sum)
           /\ min_sum_sq_error' = new.min
           /\ best_laser_pose_' = new.best
           /\ pose_initialized_' = new.init
    /\ it' = it + 1
    /\ UNCHANGED <<pc, previous_pose_, have_previous_pose_, lrf_, mailbox,
                   start_locals, lines>>

\* The search loop is over: process() reports and returns, its locals die.
Return ==
    /\ pc = "search"
    /\ it = Len(poses)
    /\ pc' = "idle"
    /\ world' = <<>>
    /\ poses' = <<>>
    /\ i_step' = 0
    /\ i' = 0
    /\ sensor_ranges' = <<>>
    /\ entry' = NoEntry
    /\ lines' = <<>>
    /\ it' = 0
    /\ min_sum_sq_error' = MinSumInit
    /\ model_ranges' = <<>>
    /\ errors' = <<>>
    /\ UNCHANGED <<members, mailbox>>

Next ==
    \/ LaserArrives
    \/ OdomArrives
    \/ ProcessStart
    \/ SubsampleStep
    \/ PrepareSearch
    \/ SearchStep
    \/ Return

Spec == Init /\ [][Next]_vars

(***************************************************************************)
(* Properties.                                                             *)
(***************************************************************************)
\* A step of process() from its entry: the only steps out of idle that
\* publish nothing.
ProcessEntry == pc = "idle" /\ laser_sent' = laser_sent /\ odom_sent' = odom_sent

\* The candidates of a cycle that began with the estimate initialized.
LocalMode == pc \in {"subsample", "search"} /\ entry.init

\* C1: no step resets the initialized flag, the estimate is Initialized as
\* soon as a cycle has scored a candidate, and so it is when the cycle
\* returns.
C1_InitializedMonotone ==
    [][/\ pose_initialized_ => pose_initialized_'
       /\ (pc' = "search" /\ it' > 0) => pose_initialized_'
       /\ (pc = "search" /\ pc' = "idle") => pose_initialized_']_vars

\* A second scan has been searched from an estimate that was Initialized
\* at the entry of its cycle, and the cycle is about to return.
C1_Witness ==
    /\ pc = "search"
    /\ it = Len(poses)
    /\ entry.init
    /\ pose_initialized_
    /\ laser_msg_[1].seq = 2

\* C2: when the search loop is over, the best pose is the candidate of
\* minimum error, and among several of minimum error the first generated.
C2_FirstMinimumWins ==
    (pc = "search" /\ it = Len(poses)) =>
        \E k \in 1..Len(poses) :
            /\ best_laser_pose_ = poses[k]
            /\ \A j \in 1..Len(poses) : errors[k].v <= errors[j].v
            /\ \A j \in 1..(k - 1) : errors[j].v > errors[k].v

\* A local search in which the predicted pose ties for the minimum with a
\* different, later candidate, and wins.
C2_Witness ==
    /\ LocalMode
    /\ pc = "search"
    /\ it = Len(poses)
    /\ best_laser_pose_ = poses[1]
    /\ \A j \in 1..Len(poses) : errors[1].v <= errors[j].v
    /\ \E j \in 2..Len(poses) : errors[j].v = errors[1].v /\ poses[j] # poses[1]
    /\ \E j \in 2..Len(poses) : errors[j].v > errors[1].v

\* C3: in a cycle with a scan and an odometry pose P1, the search centre is
\* (P1 * inverse(P0)) * B when a previous pose P0 was stored and the
\* estimate was Initialized, B is left alone otherwise, and P1 is stored
\* as the previous pose either way.
C3_MotionPrediction ==
    (pc = "subsample" /\ Len(odom_msg_) = 1) =>
        LET P1 == odom_msg_[1].pose
        IN  /\ IF entry.have /\ entry.init
               THEN /\ best_laser_pose_ = Mul(Mul(P1, Inverse(entry.prev)), entry.best)
                    /\ poses[1] = best_laser_pose_
               ELSE best_laser_pose_ = entry.best
            /\ previous_pose_ = P1
            /\ have_previous_pose_

\* Odometry that turned and moved since the stored pose has been folded
\* into an Initialized estimate, and the predicted pose differs from B.
C3_Witness ==
    /\ pc = "subsample"
    /\ Len(odom_msg_) = 1
    /\ entry.have
    /\ entry.init
    /\ odom_msg_[1].pose # entry.prev
    /\ best_laser_pose_ # entry.best
    /\ poses[1] = best_laser_pose_

\* C4: a cycle without a scan changes neither the best pose, nor the
\* initialized flag, nor the stored odometry pose and its flag, nor the
\* sensor model, also when it drained an odometry message.
C4_NoScanNoOp ==
    [][(ProcessEntry /\ Len(laser_msg_') = 0) => UNCHANGED members]_vars

\* A cycle without a scan has drained an odometry pose that differs from
\* the stored one, with the estimate Initialized.
C4_Witness ==
    /\ pc = "idle"
    /\ Len(laser_msg_) = 0
    /\ Len(odom_msg_) = 1
    /\ pose_initialized_
    /\ have_previous_pose_
    /\ odom_msg_[1].pose # previous_pose_

\* C5: at the entry of a cycle each channel hands over the message that
\* arrived last since the previous drain, or nothing when none arrived, and
\* the queue is left empty, so no message serves two cycles.
C5_LatestOnceOnly ==
    [][ProcessEntry =>
        /\ IF laser_sent > laser_drained
           THEN Len(laser_msg_') = 1 /\ laser_msg_'[1].seq = laser_sent
           ELSE Len(laser_msg_') = 0
        /\ IF odom_sent > odom_drained
           THEN Len(odom_msg_') = 1 /\ odom_msg_'[1].seq = odom_sent
           ELSE Len(odom_msg_') = 0
        /\ Len(laser_sub') = 0
        /\ Len(odom_sub') = 0]_vars

\* The first cycle with a scan uses the second scan published: the first
\* one was overwritten in the queue before any cycle drained it.
C5_Witness ==
    /\ pc = "subsample"
    /\ ~entry.init
    /\ laser_msg_[1].seq = 2
    /\ laser_drained = 2
    /\ Len(odom_msg_) = 0

\* C6: the beams scored in a cycle, which is the beam count of the sensor
\* model, are at most 100.
C6_BeamCap ==
    pc = "search" =>
        Len(sensor_ranges) <= NumBeamsLimit /\ lrf_.num_beams <= NumBeamsLimit

\* C7: a scan of 1 to 100 beams is subsampled with stride 1 to as many
\* beams, and a scan of 1000 beams with stride 10 to 100 beams.
C7_SubsampleBoundary ==
    LET size == laser_msg_[1].size
    IN  /\ pc \in {"subsample", "search", "bad_alloc"} =>
              /\ (size >= 1 /\ size <= NumBeamsLimit) => i_step = 1
              /\ size = 1000 => i_step = 10
        /\ pc = "search" =>
              /\ size <= NumBeamsLimit => Len(sensor_ranges) = size
              /\ size = 1000 => Len(sensor_ranges) = 100

\* C8: every cycle runs to completion and returns: process() is never left
\* by an exception thrown out of its subsampling loop.
C8_CycleReturns == pc # "bad_alloc"

\* The hit distances of beam b (from 1) of the sensor model from laser_pose.
Hits(laser_pose, b) ==
    LET T == Inverse(laser_pose)
    IN  {HitDist(Apply(T, lines[k].p1), Apply(T, lines[k].p2), BeamDir(lrf_, b - 1)) :
            k \in 1..Len(lines)} \ {0}

Nearest(H) == CHOOSE d \in H : \A e \in H : d <= e

C10_InvalidIsZero ==
    pc \in {"subsample", "search"} =>
        \A k \in 1..Len(sensor_ranges) :
            LET r == RangeAt(laser_msg_[1], (k - 1) * i_step)
            IN  sensor_ranges[k] =
                    IF r.k # "fin" \/ FGt(r, laser_msg_[1].range_max) THEN Fin(0) ELSE r
====
